---- MODULE Spec2Model ----
(***************************************************************************)
(* Two ESP8266 sketches that drive a two-pin H-bridge over HTTP:           *)
(*   - the lift sketch   (lift_control.ino): three floor seeks gated by an *)
(*     ultrasonic distance reading, plus Stop;                             *)
(*   - the motor sketch  (Motor control sketch): Forward, Backward, Stop.  *)
(* Distances are kept in thousandths of a centimetre, so that every        *)
(* threshold of the code (98.5, 99.5, 71, 71.5, 38, 39, 0) and the         *)
(* conversion duration * 0.034 / 2 - 2.5 = (17 * duration - 2500) / 1000   *)
(* are integers.  Each statement of a handler that writes a pin, reads the *)
(* sensor or sends a response is one step.                                 *)
(***************************************************************************)
EXTENDS Integers, Sequences, FiniteSets, TLC

VARIABLES sketch,     \* which of the two programs runs: "lift" or "motor"
          pc,         \* position of the single thread of control
          handler,    \* route handler dispatched last ("none" before the first)
          D1, D2,     \* levels of the two motor pins
          distance1,  \* global float distance1: the most recent sample
          page2,      \* global String page2: the status fragment
          sent,       \* status fragment of the last response sent
          pending,    \* requests accepted by the network stack, not yet served
          samples,    \* samples read by the handler dispatched last
          entry,      \* <<D1, D2>> at the moment that handler was dispatched
          ops,        \* sensor read and pin writes of the current loop
                      \* iteration (of the whole handler, when it has no loop)
          variant,    \* which copy of removeEmptyColumns the page carries
          table,      \* #mytable: number of th cells and the rows of td cells
          hiddenTh,   \* indices of the th cells hidden so far
          hiddenTd,   \* <<row, child index>> of the td cells hidden so far
          tpc,        \* "idle", or "each" inside the .each() of a call
          idx,        \* index i of the th the .each() callback handles next
          runs        \* number of completed calls of removeEmptyColumns

svars == <<sketch, pc, handler, D1, D2, distance1, page2, sent, pending,
           samples, entry, ops>>

tvars == <<variant, table, hiddenTh, hiddenTd, tpc, idx, runs>>

vars == <<svars, tvars>>

----------------------------------------------------------------------------
(* Bounds of the model *)

MaxPending == 1
MaxSamples == 3
MaxCols == 2
MaxRows == 2
MaxRuns == 2

----------------------------------------------------------------------------
(* Pin levels and the inputs *)

LOW == "LOW"
HIGH == "HIGH"

\* pulseIn results (microseconds) and the distance each converts to:
\*   0 (no echo) -2.5      88  -1.004    147  -0.001    1000  14.5
\*   2400  38.3          4335  71.195   5971  99.007    6618 110.006
\*   7206 120.002
Durations == {0, 88, 147, 1000, 2400, 4335, 5971, 6618, 7206}

Seeks == {"Forward", "Backward", "Left"}

Routes(s) ==
    IF s = "lift" THEN {"root", "Forward", "Backward", "Left", "Stop"}
                  ELSE {"root", "Forward", "Backward", "Stop"}

----------------------------------------------------------------------------
(* float distance(): duration * SOUND_VELOCITY / 2 - 2.5 *)

distance(dur) == 17 * dur - 2500

----------------------------------------------------------------------------
(* The if / else-if chain of each seek loop: the two pin writes of the     *)
(* branch taken, in the order the code makes them, and whether the branch  *)
(* ends with break.                                                        *)

Cmd(p1, l1, p2, l2, b) ==
    [writes |-> << [pin |-> p1, level |-> l1], [pin |-> p2, level |-> l2] >>,
     brk |-> b]

\* ForwardBranch with a break in the final else, as Left has
ForwardBranchElseBreak(d) ==
    IF d >= 98500 /\ d <= 99500 THEN Cmd("D2", LOW, "D1", LOW, TRUE)
    ELSE IF d < 98500 /\ d > 0  THEN Cmd("D1", LOW, "D2", HIGH, FALSE)
    ELSE                             Cmd("D2", LOW, "D1", LOW, TRUE)

\* ForwardBranch without the break of the in-band branch
ForwardBranchNoBreak(d) ==
    IF d >= 98500 /\ d <= 99500 THEN Cmd("D2", LOW, "D1", LOW, FALSE)
    ELSE IF d < 98500 /\ d > 0  THEN Cmd("D1", LOW, "D2", HIGH, FALSE)
    ELSE                             Cmd("D2", LOW, "D1", LOW, FALSE)

\* ForwardBranch with Backward's else-if for readings above the band
ForwardBranchReverse(d) ==
    IF d >= 98500 /\ d <= 99500 THEN Cmd("D2", LOW, "D1", LOW, TRUE)
    ELSE IF d < 98500 /\ d > 0  THEN Cmd("D1", LOW, "D2", HIGH, FALSE)
    ELSE IF d > 99500           THEN Cmd("D1", HIGH, "D2", LOW, FALSE)
    ELSE                             Cmd("D2", LOW, "D1", LOW, FALSE)

ForwardBranch(d) ==
    IF d >= 98500 /\ d <= 99500 THEN Cmd("D2", LOW, "D1", LOW, TRUE)
    ELSE IF d < 98500 /\ d > 0  THEN Cmd("D1", LOW, "D2", HIGH, FALSE)
    ELSE                             Cmd("D2", LOW, "D1", LOW, FALSE)

\* BackwardBranch whose final else writes D1 twice and D2 never
BackwardBranchD1Twice(d) ==
    IF d >= 71000 /\ d <= 71500 THEN Cmd("D2", LOW, "D1", LOW, TRUE)
    ELSE IF d < 71000 /\ d > 0  THEN Cmd("D1", LOW, "D2", HIGH, FALSE)
    ELSE IF d > 71500           THEN Cmd("D1", HIGH, "D2", LOW, FALSE)
    ELSE                             Cmd("D1", LOW, "D1", LOW, FALSE)

\* BackwardBranch without the else-if for readings above the band
BackwardBranchNoReverse(d) ==
    IF d >= 71000 /\ d <= 71500 THEN Cmd("D2", LOW, "D1", LOW, TRUE)
    ELSE IF d < 71000 /\ d > 0  THEN Cmd("D1", LOW, "D2", HIGH, FALSE)
    ELSE                             Cmd("D2", LOW, "D1", LOW, FALSE)

\* BackwardBranch with a break in the final else, as Left has
BackwardBranchElseBreak(d) ==
    IF d >= 71000 /\ d <= 71500 THEN Cmd("D2", LOW, "D1", LOW, TRUE)
    ELSE IF d < 71000 /\ d > 0  THEN Cmd("D1", LOW, "D2", HIGH, FALSE)
    ELSE IF d > 71500           THEN Cmd("D1", HIGH, "D2", LOW, FALSE)
    ELSE                             Cmd("D2", LOW, "D1", LOW, TRUE)

BackwardBranch(d) ==
    IF d >= 71000 /\ d <= 71500 THEN Cmd("D2", LOW, "D1", LOW, TRUE)
    ELSE IF d < 71000 /\ d > 0  THEN Cmd("D1", LOW, "D2", HIGH, FALSE)
    ELSE IF d > 71500           THEN Cmd("D1", HIGH, "D2", LOW, FALSE)
    ELSE                             Cmd("D2", LOW, "D1", LOW, FALSE)

\* LeftBranch with the two pins of the below-band branch exchanged
LeftBranchSwapped(d) ==
    IF d >= 38000 /\ d <= 39000 THEN Cmd("D2", LOW, "D1", LOW, TRUE)
    ELSE IF d > 0 /\ d < 38000  THEN Cmd("D1", HIGH, "D2", LOW, FALSE)
    ELSE IF d > 39000           THEN Cmd("D1", HIGH, "D2", LOW, FALSE)
    ELSE                             Cmd("D2", LOW, "D1", LOW, TRUE)

\* LeftBranch with the break of the final else moved to the above-band branch
LeftBranchReverseBreak(d) ==
    IF d >= 38000 /\ d <= 39000 THEN Cmd("D2", LOW, "D1", LOW, TRUE)
    ELSE IF d > 0 /\ d < 38000  THEN Cmd("D2", HIGH, "D1", LOW, FALSE)
    ELSE IF d > 39000           THEN Cmd("D1", HIGH, "D2", LOW, TRUE)
    ELSE                             Cmd("D2", LOW, "D1", LOW, FALSE)

LeftBranch(d) ==
    IF d >= 38000 /\ d <= 39000 THEN Cmd("D2", LOW, "D1", LOW, TRUE)
    ELSE IF d > 0 /\ d < 38000  THEN Cmd("D2", HIGH, "D1", LOW, FALSE)
    ELSE IF d > 39000           THEN Cmd("D1", HIGH, "D2", LOW, FALSE)
    ELSE                             Cmd("D2", LOW, "D1", LOW, TRUE)

Branch(h, d) ==
    CASE h = "Forward"  -> ForwardBranch(d)
      [] h = "Backward" -> BackwardBranch(d)
      [] h = "Left"     -> LeftBranch(d)

\* the status fragment each seek stores in page2 after its loop
Status(h) ==
    CASE h = "Forward"  -> "Lift has reached the Ground Floor"
      [] h = "Backward" -> "Lift has reached the First Floor"
      [] h = "Left"     -> "Lift has reached the Second Floor"

\* digitalWrite(pin, level)
digitalWrite(w) ==
    /\ D1' = IF w.pin = "D1" THEN w.level ELSE D1
    /\ D2' = IF w.pin = "D2" THEN w.level ELSE D2
    /\ ops' = Append(ops, w.pin)

----------------------------------------------------------------------------
(* Initial state: setup() has run, no request has been served *)

Init ==
    /\ sketch \in {"lift", "motor"}
    /\ pc = "loop"
    /\ handler = "none"
    /\ D1 = LOW
    /\ D2 = LOW
    /\ distance1 = 0
    /\ page2 = ""
    /\ sent = ""
    /\ pending = << >>
    /\ samples = << >>
    /\ entry = <<LOW, LOW>>
    /\ ops = << >>
    /\ variant = "empty"
    /\ table = [th |-> 0, rows |-> << >>]
    /\ hiddenTh = {}
    /\ hiddenTd = {}
    /\ tpc = "idle"
    /\ idx = 0
    /\ runs = 0

----------------------------------------------------------------------------
(* The network: a client issues a request at any time *)

Arrive ==
    /\ Len(pending) < MaxPending
    /\ \E r \in Routes(sketch) : pending' = Append(pending, r)
    /\ UNCHANGED <<sketch, pc, handler, D1, D2, distance1, page2, sent,
                   samples, entry, ops>>
    /\ UNCHANGED tvars

\* a dispatcher that would serve a request while a handler is running
IdleAlways == TRUE

\* loop() is between two handlers
Idle == pc = "loop"

FirstStep(s, r) ==
    CASE r = "root" -> "root_send"
      [] r = "Stop" -> "stop_send"
      [] r = "Forward"  -> IF s = "lift" THEN "read" ELSE "fwd_w1"
      [] r = "Backward" -> IF s = "lift" THEN "read" ELSE "bwd_send"
      [] r = "Left" -> "read"

\* loop(): server.handleClient() calls the handler of the oldest request
HandleClient ==
    /\ Idle
    /\ pending # << >>
    /\ handler' = Head(pending)
    /\ pending' = Tail(pending)
    /\ pc' = FirstStep(sketch, Head(pending))
    /\ samples' = << >>
    /\ entry' = <<D1, D2>>
    /\ ops' = << >>
    /\ UNCHANGED <<sketch, D1, D2, distance1, page2, sent>>
    /\ UNCHANGED tvars

\* server.on("/"): sends page + page2
RootSend ==
    /\ pc = "root_send"
    /\ sent' = page2
    /\ pc' = "loop"
    /\ UNCHANGED <<sketch, handler, D1, D2, distance1, page2, pending,
                   samples, entry, ops>>
    /\ UNCHANGED tvars

----------------------------------------------------------------------------
(* server.on("/Stop"), the same lambda in both sketches *)

StopSend ==
    /\ pc = "stop_send"
    /\ page2' = "Off"
    /\ sent' = "Off"
    /\ pc' = "stop_w1"
    /\ UNCHANGED <<sketch, handler, D1, D2, distance1, pending, samples,
                   entry, ops>>
    /\ UNCHANGED tvars

StopWriteD2 ==
    /\ pc = "stop_w1"
    /\ digitalWrite([pin |-> "D2", level |-> LOW])
    /\ pc' = "stop_w2"
    /\ UNCHANGED <<sketch, handler, distance1, page2, sent, pending, samples,
                   entry>>
    /\ UNCHANGED tvars

\* the Stop handler without its digitalWrite(D1,LOW)
StopWriteD1Skipped ==
    /\ pc = "stop_w2"
    /\ pc' = "loop"
    /\ UNCHANGED <<sketch, handler, D1, D2, distance1, page2, sent, pending,
                   samples, entry, ops>>
    /\ UNCHANGED tvars

StopWriteD1 ==
    /\ pc = "stop_w2"
    /\ digitalWrite([pin |-> "D1", level |-> LOW])
    /\ pc' = "loop"
    /\ UNCHANGED <<sketch, handler, distance1, page2, sent, pending, samples,
                   entry>>
    /\ UNCHANGED tvars

----------------------------------------------------------------------------
(* The seek loops of the lift sketch: Forward, Backward, Left *)

\* distance1 = distance(), the echo measured by pulseIn
SeekRead ==
    /\ pc = "read"
    /\ Len(samples) < MaxSamples
    /\ \E dur \in Durations :
         /\ distance1' = distance(dur)
         /\ samples' = Append(samples, distance(dur))
    /\ ops' = <<"read">>
    /\ pc' = "w1"
    /\ UNCHANGED <<sketch, handler, D1, D2, page2, sent, pending, entry>>
    /\ UNCHANGED tvars

\* first digitalWrite of the branch taken
SeekWrite1 ==
    /\ pc = "w1"
    /\ digitalWrite(Branch(handler, distance1).writes[1])
    /\ pc' = "w2"
    /\ UNCHANGED <<sketch, handler, distance1, page2, sent, pending, samples,
                   entry>>
    /\ UNCHANGED tvars

\* second digitalWrite of the branch taken, then break or the next iteration
SeekWrite2 ==
    /\ pc = "w2"
    /\ digitalWrite(Branch(handler, distance1).writes[2])
    /\ pc' = IF Branch(handler, distance1).brk THEN "send" ELSE "read"
    /\ UNCHANGED <<sketch, handler, distance1, page2, sent, pending, samples,
                   entry>>
    /\ UNCHANGED tvars

\* after the loop: page2 = "... reached the <floor>"; server.send(...)
SeekSend ==
    /\ pc = "send"
    /\ page2' = Status(handler)
    /\ sent' = Status(handler)
    /\ pc' = "loop"
    /\ UNCHANGED <<sketch, handler, D1, D2, distance1, pending, samples,
                   entry, ops>>
    /\ UNCHANGED tvars

----------------------------------------------------------------------------
(* Forward and Backward of the motor sketch *)

MotorForwardWriteD2 ==
    /\ pc = "fwd_w1"
    /\ digitalWrite([pin |-> "D2", level |-> HIGH])
    /\ pc' = "fwd_w2"
    /\ UNCHANGED <<sketch, handler, distance1, page2, sent, pending, samples,
                   entry>>
    /\ UNCHANGED tvars

\* Forward of the motor sketch without its digitalWrite(D1,LOW)
MotorForwardWriteD1Skipped ==
    /\ pc = "fwd_w2"
    /\ pc' = "fwd_send"
    /\ UNCHANGED <<sketch, handler, D1, D2, distance1, page2, sent, pending,
                   samples, entry, ops>>
    /\ UNCHANGED tvars

MotorForwardWriteD1 ==
    /\ pc = "fwd_w2"
    /\ digitalWrite([pin |-> "D1", level |-> LOW])
    /\ pc' = "fwd_send"
    /\ UNCHANGED <<sketch, handler, distance1, page2, sent, pending, samples,
                   entry>>
    /\ UNCHANGED tvars

MotorForwardSend ==
    /\ pc = "fwd_send"
    /\ page2' = "Forward"
    /\ sent' = "Forward"
    /\ pc' = "loop"
    /\ UNCHANGED <<sketch, handler, D1, D2, distance1, pending, samples,
                   entry, ops>>
    /\ UNCHANGED tvars

MotorBackwardSend ==
    /\ pc = "bwd_send"
    /\ page2' = "Backward"
    /\ sent' = "Backward"
    /\ pc' = "bwd_w1"
    /\ UNCHANGED <<sketch, handler, D1, D2, distance1, pending, samples,
                   entry, ops>>
    /\ UNCHANGED tvars

MotorBackwardWriteD1 ==
    /\ pc = "bwd_w1"
    /\ digitalWrite([pin |-> "D1", level |-> HIGH])
    /\ pc' = "bwd_w2"
    /\ UNCHANGED <<sketch, handler, distance1, page2, sent, pending, samples,
                   entry>>
    /\ UNCHANGED tvars

MotorBackwardWriteD2 ==
    /\ pc = "bwd_w2"
    /\ digitalWrite([pin |-> "D2", level |-> LOW])
    /\ pc' = "loop"
    /\ UNCHANGED <<sketch, handler, distance1, page2, sent, pending, samples,
                   entry>>
    /\ UNCHANGED tvars

----------------------------------------------------------------------------

Next ==
    \/ Arrive
    \/ HandleClient
    \/ RootSend
    \/ StopSend
    \/ StopWriteD2
    \/ StopWriteD1
    \/ SeekRead
    \/ SeekWrite1
    \/ SeekWrite2
    \/ SeekSend
    \/ MotorForwardWriteD2
    \/ MotorForwardWriteD1
    \/ MotorForwardSend
    \/ MotorBackwardSend
    \/ MotorBackwardWriteD1
    \/ MotorBackwardWriteD2

Spec == Init /\ [][Next]_vars

TypeOK ==
    /\ sketch \in {"lift", "motor"}
    /\ D1 \in {LOW, HIGH}
    /\ D2 \in {LOW, HIGH}
    /\ handler \in Routes(sketch) \cup {"none"}
    /\ Len(pending) <= MaxPending
    /\ Len(samples) <= MaxSamples

----------------------------------------------------------------------------
(* removeEmptyColumns of the survey page.  #mytable has one header row of  *)
(* table.th th cells and rows of td cells; the content of a td is nothing  *)
(* (""), white space only (" ") or text ("x").  The page carries one of    *)
(* two copies of the function: "empty" tests the cells with the :empty     *)
(* selector, "trim" with !td.textContent.trim().                           *)

Cells == {"", " ", "x"}

\* the index handed to td:nth-child, with the + 1 left out
nthChildSameIndex(i) == i

\* 'tr td:nth-child(' + (i + 1) + ')'
nthChild(i) == i + 1

\* $(this).parents('table').find('tr td:nth-child(n)')
Tds(n) ==
    {<<r, n>> : r \in {q \in 1..Len(table.rows) : n \in 1..Len(table.rows[q])}}

Content(td) == table.rows[td[1]][td[2]]

\* the test of the if: all the cells found are empty
AllEmpty(v, tds) ==
    IF v = "empty"
    THEN Cardinality(tds) = Cardinality({td \in tds : Content(td) = ""})
    ELSE \A td \in tds : Content(td) \in {"", " "}

\* the page as loaded: nothing hidden, the function not yet called
InitTable ==
    /\ sketch = "none"
    /\ pc = "loop"
    /\ handler = "none"
    /\ D1 = LOW
    /\ D2 = LOW
    /\ distance1 = 0
    /\ page2 = ""
    /\ sent = ""
    /\ pending = << >>
    /\ samples = << >>
    /\ entry = <<LOW, LOW>>
    /\ ops = << >>
    /\ variant \in {"empty", "trim"}
    /\ \E c \in 1..MaxCols, r \in 0..MaxRows :
         table \in [th : {c}, rows : [1..r -> [1..c -> Cells]]]
    /\ hiddenTh = {}
    /\ hiddenTd = {}
    /\ tpc = "idle"
    /\ idx = 0
    /\ runs = 0

\* removeEmptyColumns() is called: $('#mytable tr th').each(...) starts
CallRemoveEmptyColumns ==
    /\ tpc = "idle"
    /\ runs < MaxRuns
    /\ tpc' = "each"
    /\ idx' = 0
    /\ UNCHANGED <<variant, table, hiddenTh, hiddenTd, runs>>
    /\ UNCHANGED svars

\* the callback of .each() for the th of index idx; after the last th the
\* call returns
EachCallback ==
    /\ tpc = "each"
    /\ LET tds == Tds(nthChild(idx)) IN
         IF AllEmpty(variant, tds)
         THEN /\ hiddenTh' = hiddenTh \cup {idx + 1}
              /\ hiddenTd' = hiddenTd \cup tds
         ELSE UNCHANGED <<hiddenTh, hiddenTd>>
    /\ IF idx + 1 < table.th
       THEN /\ idx' = idx + 1
            /\ UNCHANGED <<tpc, runs>>
       ELSE /\ tpc' = "idle"
            /\ runs' = runs + 1
            /\ idx' = 0
    /\ UNCHANGED <<variant, table>>
    /\ UNCHANGED svars

NextTable ==
    \/ CallRemoveEmptyColumns
    \/ EachCallback

SpecTable == InitTable /\ [][NextTable]_vars

----------------------------------------------------------------------------
(* Vocabulary of the properties *)

\* tolerance band of each seek, in thousandths of a centimetre
Lower(h) ==
    CASE h = "Forward" -> 98500 [] h = "Backward" -> 71000 [] h = "Left" -> 38000

Upper(h) ==
    CASE h = "Forward" -> 99500 [] h = "Backward" -> 71500 [] h = "Left" -> 39000

\* the handler dispatched last is a seek of the lift sketch that has read a
\* sample, so distance1 is the most recent sample of that seek
Sampled == sketch = "lift" /\ handler \in Seeks /\ samples # << >>

Looping == pc \in {"read", "w1", "w2"}
Left_loop == pc \in {"send", "loop"}
Stopped == D1 = LOW /\ D2 = LOW

----------------------------------------------------------------------------
\* C1: for every target, a seek that has read a non-positive sample emits the
\* stop command (D1 and D2 LOW) and does not terminate: it stays in its loop
\* and goes back to read another sample.
C1_NonPositiveKeepsSeeking ==
    (Sampled /\ distance1 <= 0) =>
        /\ Looping
        /\ (pc = "read" => Stopped)

\* C2: the two motor outputs are never both HIGH, in either sketch, every
\* digitalWrite being one step.
C2_MutuallyExclusive == ~(D1 = HIGH /\ D2 = HIGH)

\* C3: a seek leaves its loop (and sends its status) only if the most recent
\* sample lies inside the band of its target.
C3_ExitOnlyInBand ==
    (sketch = "lift" /\ handler \in Seeks /\ Left_loop) =>
        /\ samples # << >>
        /\ distance1 >= Lower(handler)
        /\ distance1 <= Upper(handler)

\* C4: a sample at or above the upper bound of First (71.5) or Second (39)
\* yields D1 HIGH, D2 LOW and the seek keeps looping; a Ground seek never
\* drives D1 HIGH.  (distance() returns no value equal to either bound: the
\* pulses around them convert to values on both sides of it.)
C4_AtOrAboveUpperReverses ==
    /\ (Sampled /\ handler \in {"Backward", "Left"}
               /\ distance1 >= Upper(handler)) =>
          /\ Looping
          /\ (pc = "read" => (D1 = HIGH /\ D2 = LOW))
    /\ (sketch = "lift" /\ handler = "Forward") => D1 = LOW
    /\ distance(4352) < 71500 /\ distance(4353) > 71500
    /\ distance(2441) < 39000 /\ distance(2442) > 39000

C4_Witness ==
    /\ Sampled /\ handler \in {"Backward", "Left"}
    /\ distance1 >= Upper(handler)
    /\ pc = "read" /\ D1 = HIGH /\ D2 = LOW

\* C5: a sample strictly inside the band of the target makes the seek emit
\* the stop command and leave the loop in that iteration, no further sample
\* being read, and the status sent names the floor of that target.
C5_InBandArrives ==
    (Sampled /\ distance1 > Lower(handler) /\ distance1 < Upper(handler)) =>
        /\ pc # "read"
        /\ distance1 = samples[Len(samples)]
        /\ (Left_loop => Stopped)
        /\ (pc = "loop" =>
              /\ page2 = sent
              /\ sent = CASE handler = "Forward" ->
                               "Lift has reached the Ground Floor"
                          [] handler = "Backward" ->
                               "Lift has reached the First Floor"
                          [] handler = "Left" ->
                               "Lift has reached the Second Floor")

C5_Witness ==
    /\ Sampled /\ handler = "Left" /\ pc = "loop"
    /\ distance1 > 38000 /\ distance1 < 39000
    /\ sent = "Lift has reached the Second Floor"

\* C6: a positive sample below the lower bound of the target yields D2 HIGH,
\* D1 LOW and the seek keeps looping.
C6_BelowLowerAdvances ==
    (Sampled /\ distance1 > 0 /\ distance1 < Lower(handler)) =>
        /\ Looping
        /\ (pc = "read" => (D2 = HIGH /\ D1 = LOW))

C6_Witness ==
    /\ Sampled /\ handler = "Left" /\ pc = "read"
    /\ distance1 > 0 /\ distance1 < 38000
    /\ D2 = HIGH /\ D1 = LOW

\* C7: when the Stop handler has completed both outputs are LOW, whatever
\* they were when it was dispatched; the handler reads no sample and never
\* goes back to an earlier statement.
StopRank(p) ==
    CASE p = "stop_send" -> 0 [] p = "stop_w1" -> 1 [] p = "stop_w2" -> 2
      [] p = "loop" -> 3 [] OTHER -> -1

C7_StopForcesIdle ==
    /\ []((handler = "Stop" /\ pc = "loop") => Stopped)
    /\ [](handler = "Stop" => (samples = << >> /\ StopRank(pc) >= 0))
    /\ [][(handler = "Stop" /\ pc # "loop") =>
            /\ handler' = handler
            /\ distance1' = distance1
            /\ StopRank(pc') >= StopRank(pc)]_vars

C7_Witness ==
    /\ handler = "Stop" /\ pc = "loop"
    /\ entry = <<HIGH, LOW>>
    /\ Stopped

\* C8: from the dispatch of a seek to the return of its handler no other
\* handler runs, no request is taken from the pending ones, and the pins
\* change only by the seek's own writes.
OwnWrite(n) ==
    /\ pc = IF n = 1 THEN "w1" ELSE "w2"
    /\ LET w == Branch(handler, distance1).writes[n] IN
         /\ D1' = IF w.pin = "D1" THEN w.level ELSE D1
         /\ D2' = IF w.pin = "D2" THEN w.level ELSE D2

C8_SeekNotPreempted ==
    [][(sketch = "lift" /\ handler \in Seeks /\ pc # "loop") =>
         /\ handler' = handler
         /\ pc' \in {"read", "w1", "w2", "send", "loop"}
         /\ Len(pending') >= Len(pending)
         /\ SubSeq(pending', 1, Len(pending)) = pending
         /\ (<<D1, D2>>' # <<D1, D2>> => (OwnWrite(1) \/ OwnWrite(2)))]_vars

C8_Witness ==
    /\ sketch = "lift" /\ handler \in Seeks
    /\ pc = "w1" /\ Len(samples) >= 2
    /\ pending # << >>

\* the value distance() returns closest to v: the steps of distance() are 17
\* thousandths of a centimetre, so exactly one pulse converts to within 8
Reading(v) ==
    CHOOSE s \in {distance(dur) : dur \in Durations} : s - v \in -8..8

\* C9: a Ground seek whose readings are those of 120, 110 and 99 cm is still
\* looping after the first and after the second, leaves the loop on the
\* third without reading a fourth sample, ends with both outputs LOW and
\* reports the Ground floor.
C9_GroundScenario ==
    (sketch = "lift" /\ handler = "Forward") =>
        /\ (samples = <<Reading(120000)>> => Looping)
        /\ (samples = <<Reading(120000), Reading(110000)>> => Looping)
        /\ (samples = <<Reading(120000), Reading(110000), Reading(99000)>> =>
              /\ pc # "read"
              /\ (Left_loop => Stopped)
              /\ (pc = "loop" =>
                    /\ page2 = "Lift has reached the Ground Floor"
                    /\ sent = "Lift has reached the Ground Floor"))

C9_Witness ==
    /\ sketch = "lift" /\ handler = "Forward" /\ pc = "loop"
    /\ samples = <<120002, 110006, 99007>>
    /\ samples = <<Reading(120000), Reading(110000), Reading(99000)>>
    /\ sent = "Lift has reached the Ground Floor"
    /\ Stopped

\* C10: a First-floor seek whose readings are those of -1, 0 and 71.2 cm
\* keeps looping with both outputs LOW after the first and after the second,
\* leaves the loop on the third and reports the First floor.
C10_FirstScenario ==
    (sketch = "lift" /\ handler = "Backward") =>
        /\ (samples = <<Reading(-1000)>> => (Looping /\ Stopped))
        /\ (samples = <<Reading(-1000), Reading(0)>> => (Looping /\ Stopped))
        /\ (samples = <<Reading(-1000), Reading(0), Reading(71200)>> =>
              /\ pc # "read"
              /\ (Left_loop => Stopped)
              /\ (pc = "loop" =>
                    /\ page2 = "Lift has reached the First Floor"
                    /\ sent = "Lift has reached the First Floor"))

C10_Witness ==
    /\ sketch = "lift" /\ handler = "Backward" /\ pc = "loop"
    /\ samples = <<-1004, -1, 71195>>
    /\ samples = <<Reading(-1000), Reading(0), Reading(71200)>>
    /\ sent = "Lift has reached the First Floor"
    /\ Stopped

----------------------------------------------------------------------------
\* C11: in a Ground seek every sample above 99.5 yields the idle command and
\* the seek keeps looping; so a Ground seek all of whose samples are above
\* 99.5 (in particular one whose distance stays where it was while the
\* motor is idle) never leaves its loop and never drives either output HIGH.
AllAbove(t) == \A i \in 1..Len(samples) : samples[i] > t

C11_GroundAboveBandIdles ==
    (Sampled /\ handler = "Forward") =>
        /\ (distance1 > 99500 => (Looping /\ (pc = "read" => Stopped)))
        /\ (AllAbove(99500) => (Looping /\ Stopped))

C11_Witness ==
    /\ Sampled /\ handler = "Forward" /\ pc = "read"
    /\ samples = <<120002, 120002, 120002>>
    /\ Stopped

\* C13: distance() is duration * 0.034 / 2 - 2.5; a missing echo (duration
\* 0) gives a non-positive distance, and every seek treats that sample as
\* invalid: neither as inside its band (stop and arrive) nor as below it
\* (D2 HIGH), but as idle and keep sampling.
C13_MissingEchoIsInvalid ==
    /\ \A dur \in Durations : 2 * (distance(dur) + 2500) = 34 * dur
    /\ distance(0) <= 0
    /\ (Sampled /\ distance1 = distance(0)) =>
          /\ Looping
          /\ (pc = "read" => Stopped)

\* C14: in the lift sketch both outputs are LOW whenever the controller is
\* in the dispatcher between two handlers.
C14_LiftIdleStopped == (sketch = "lift" /\ pc = "loop") => Stopped

C14_Witness ==
    /\ sketch = "lift" /\ pc = "loop" /\ handler = "Left"
    /\ Len(samples) >= 2 /\ samples[1] > 39000
    /\ Stopped

\* C15: in the motor sketch the outputs after a handler has returned are
\* fixed by that handler alone: Forward gives D2 HIGH and D1 LOW, Backward
\* D1 HIGH and D2 LOW, Stop both LOW, the root route the outputs it found;
\* every handler runs its statements once, in order.
MotorRank(p) ==
    CASE p \in {"fwd_w1", "bwd_send", "stop_send", "root_send"} -> 0
      [] p \in {"fwd_w2", "bwd_w1", "stop_w1"} -> 1
      [] p \in {"fwd_send", "bwd_w2", "stop_w2"} -> 2
      [] p = "loop" -> 3
      [] OTHER -> -1

C15_MotorLastRequestDecides ==
    /\ []((sketch = "motor" /\ pc = "loop") =>
            CASE handler = "Forward"  -> (D2 = HIGH /\ D1 = LOW)
              [] handler = "Backward" -> (D1 = HIGH /\ D2 = LOW)
              [] handler = "Stop"     -> (D1 = LOW /\ D2 = LOW)
              [] handler = "root"     -> <<D1, D2>> = entry
              [] OTHER                -> (D1 = LOW /\ D2 = LOW))
    /\ [](sketch = "motor" => MotorRank(pc) >= 0)
    /\ [][(sketch = "motor" /\ pc # "loop" /\ pc' # pc) =>
            /\ handler' = handler
            /\ MotorRank(pc') > MotorRank(pc)]_vars

C15_Witness ==
    /\ sketch = "motor" /\ pc = "loop" /\ handler = "Forward"
    /\ entry = <<HIGH, LOW>>
    /\ D2 = HIGH /\ D1 = LOW

\* C16: at the moment a handler sends its status the outputs already hold
\* what the status reports: "Off" and "Lift has reached ..." are sent with
\* both outputs LOW, "Forward" with D2 HIGH and D1 LOW, "Backward" with D1
\* HIGH and D2 LOW.
C16_StatusMatchesOutputs ==
    /\ pc \in {"stop_send", "send"} => Stopped
    /\ pc = "fwd_send" => (D2 = HIGH /\ D1 = LOW)
    /\ pc = "bwd_send" => (D1 = HIGH /\ D2 = LOW)

----------------------------------------------------------------------------
\* C12: every iteration of a seek loop is one sensor read followed by one
\* write to each of D1 and D2, in that order, and no pin is written before
\* the first sensor read of the seek.
C12_ReadThenOneCommand ==
    (sketch = "lift" /\ handler \in Seeks) =>
        /\ (samples = << >> => (pc = "read" /\ ops = << >>))
        /\ (pc = "w1" => ops = <<"read">>)
        /\ (pc = "w2" =>
              /\ Len(ops) = 2
              /\ ops[1] = "read"
              /\ ops[2] \in {"D1", "D2"})
        /\ ((samples # << >> /\ pc \in {"read", "send", "loop"}) =>
              /\ Len(ops) = 3
              /\ ops[1] = "read"
              /\ {ops[2], ops[3]} = {"D1", "D2"})

C12_Witness ==
    /\ sketch = "lift" /\ handler = "Left" /\ pc = "read"
    /\ Len(samples) = 2
    /\ ops = <<"read", "D2", "D1">>

----------------------------------------------------------------------------
\* the columns all of whose td cells hold nothing at all
NoContentCols ==
    {c \in 1..table.th : \A r \in 1..Len(table.rows) : table.rows[r][c] = ""}

\* the columns all of whose td cells hold nothing but white space
BlankCols ==
    {c \in 1..table.th :
        \A r \in 1..Len(table.rows) : table.rows[r][c] \in {"", " "}}

CellsOf(cols) == {<<r, c>> : r \in 1..Len(table.rows), c \in cols}

\* C17 as stated, an empty cell being a cell with nothing in it: once
\* removeEmptyColumns has run, the hidden th and td cells are exactly those of
\* the columns whose td cells are all empty, and they stay exactly those
\* during and after a second run.
C17_HidesEmptyColumns ==
    runs >= 1 =>
        /\ hiddenTh = NoContentCols
        /\ hiddenTd = CellsOf(NoContentCols)

\* C17 amended: the same, an empty cell being a cell with no content at all
\* for the :empty copies of the function and a cell with no text but white
\* space for the textContent.trim() copy.
C17_HidesEmptyColumnsPerCopy ==
    runs >= 1 =>
        LET cols == IF variant = "empty" THEN NoContentCols ELSE BlankCols IN
          /\ hiddenTh = cols
          /\ hiddenTd = CellsOf(cols)

C17_Witness ==
    /\ runs = 2 /\ tpc = "idle"
    /\ table.th = 2 /\ Len(table.rows) = 2
    /\ hiddenTh = {2}
    /\ hiddenTd = {<<1, 2>>, <<2, 2>>}
====
